---- MODULE Spec2Model ----
(***************************************************************************)
(* Model of app.py, the Streamlit script of the invoice data extractor.    *)
(*                                                                         *)
(* One run of the script is one invocation.  The script is a straight line *)
(* of statements; each statement that can raise, and each blocking call to *)
(* an external service, is one step of the model.  An exception is never   *)
(* caught by the script: it ends the run where it is raised.               *)
(*                                                                         *)
(* The file system (the temporary files) and the process environment       *)
(* outlive a run; every script variable is rebuilt by the next run.        *)
(***************************************************************************)
EXTENDS Integers, Sequences, FiniteSets, TLC

\* Number of script runs explored.
MaxRuns == 3
\* A modelled chat reply lacks at most this many of the six field names.
MaxMissing == 1

None == "None"
NULL == "null"
Error == "error"

\* ------------------------------------------------------------------------
\* Inputs of a run.
\* ------------------------------------------------------------------------

\* st.text_input returns "" until the user types a key.
Credentials == {"", "sk-user"}

\* Bytes of the uploaded file.  The uploader filters on the file extension
\* only, so the bytes need not be a PDF.
Uploads == {"notpdf", "invA", "invB"}

IsPdf(bytes) == bytes \in {"invA", "invB"}

\* Text PyPDFLoader extracts from a readable PDF.
PageText(bytes) == IF bytes = "invA" THEN "text of invoice A" ELSE "text of invoice B"

\* The retrieval question, fixed by the script.
query == "This document is an invoice, please describe it"

\* response_schemas: the six field names, in the order the script lists them.
response_schemas == <<"number", "date", "company", "address", "service", "total">>

Keys == {response_schemas[i] : i \in DOMAIN response_schemas}

\* A key the schema does not name, which a chat reply may carry anyway.
ExtraKeys == {"currency"}

AllKeys == Keys \cup ExtraKeys

\* Values a chat reply gives a field: JSON null, the empty string, a value.
Vals == {NULL, "", "v"}

\* ------------------------------------------------------------------------
\* Texts the external services return.
\* ------------------------------------------------------------------------

\* Free-text answers of the text-generation service.
Answers == {"description 1", "description 2"}

EmptyBody == [k \in {} |-> NULL]

NoJson == [kind |-> "none", body |-> EmptyBody]

ChatError == [kind |-> Error, body |-> EmptyBody]

\* Text that holds no JSON at all.
Garbage == [kind |-> "text", body |-> EmptyBody]

KeySets == {S \in SUBSET AllKeys : Cardinality(Keys \ S) <= MaxMissing}

\* A JSON object: every key present carries the same value v, or exactly
\* one field is null.
Objects ==
    {[kind |-> "object", body |-> [k \in S |-> v]] : S \in KeySets, v \in Vals}
    \cup {[kind |-> "object", body |-> [k \in Keys |-> IF k = m THEN NULL ELSE "v"]] : m \in Keys}

\* A JSON array of strings (the body maps each element to itself).
Arrays == {[kind |-> "array", body |-> [k \in S |-> k]] : S \in KeySets}

\* Contents of a chat reply.
Responses == Objects \cup Arrays \cup {Garbage}

FullObject == [kind |-> "object", body |-> [k \in Keys |-> "v"]]

\* Replies a deterministic stub chat service chooses among.
StubResponses == {FullObject, Garbage, ChatError}

VARIABLES
    run,              \* number of script runs started so far
    OPENAI_API_KEY,   \* whether the process environment sets OPENAI_API_KEY
    files,            \* the temporary directory: file name -> bytes
    stub,             \* the external services: free, or deterministic stubs
    hist,             \* outcomes of the finished invocations (stub services)
    pc,               \* position of the running script
    failure,          \* the exception that ended the run, or None
    openai_key,       \* app.py:35
    invoice_file,     \* app.py:37
    temporary_file,   \* app.py:43 (its name; 0 before it exists)
    loader,           \* app.py:47 (the path it will read; 0 before it exists)
    llm,              \* app.py:49 (the credential it holds)
    embeddings,       \* app.py:51 (the credential it holds)
    docs,             \* pages loaded inside from_loaders
    index,            \* app.py:53
    text_invoice,     \* app.py:69
    format_template,  \* app.py:112
    chat,             \* app.py:110 (the credential it holds)
    response,         \* app.py:114 (its content)
    json_invoice,     \* app.py:116
    displayed,        \* what st.json has shown, app.py:120
    calls             \* log of the calls made to the external services

persistent == <<run, OPENAI_API_KEY, files, stub, hist>>

script == <<openai_key, invoice_file, temporary_file, loader, llm, embeddings, docs,
            index, text_invoice, format_template, chat, response, json_invoice,
            displayed, calls>>

vars == <<persistent, pc, failure, script>>

\* ------------------------------------------------------------------------
\* External services.
\* ------------------------------------------------------------------------

FreeServices ==
    [on |-> FALSE,
     embed |-> "ok",
     complete |-> [b \in {} |-> Error],
     chat |-> [a \in {} |-> ChatError]]

\* Deterministic stubs: each service is a function of its input.
StubServices ==
    {[on |-> TRUE, embed |-> e, complete |-> c, chat |-> h] :
        e \in {"ok", Error},
        c \in [{PageText(b) : b \in {"invA", "invB"}} -> Answers],
        h \in [Answers -> StubResponses]}

\* Outcome of one call of the embedding service.
EmbedReplies(text) == IF stub.on THEN {stub.embed} ELSE {"ok", Error}

\* Outcome of one call of the text-generation service.
CompleteReplies(context) ==
    IF stub.on THEN {stub.complete[context]} ELSE Answers \cup {Error}

\* Outcome of one call of the chat-completion service.
ChatReplies(messages) ==
    IF stub.on THEN {stub.chat[messages.text]} ELSE Responses \cup {ChatError}

\* ------------------------------------------------------------------------
\* Helpers.
\* ------------------------------------------------------------------------

\* The credential a client ends up with: the explicit key, else the
\* environment variable, else none (the constructor raises).
ClientKey(key) ==
    IF key # "" THEN key ELSE IF OPENAI_API_KEY THEN "env" ELSE None

Names == 1..MaxRuns

\* NamedTemporaryFile: a name no existing file has.
TempName(fs) == CHOOSE n \in Names : n \notin DOMAIN fs /\ \A m \in Names : m < n => m \in DOMAIN fs

WriteFile(fs, name, bytes) ==
    [n \in DOMAIN fs \cup {name} |-> IF n = name THEN bytes ELSE fs[n]]

RemoveFile(fs, name) == [n \in DOMAIN fs \ {name} |-> fs[n]]

Outcome(reason) == [failure |-> reason, text |-> text_invoice, json |-> displayed]

Finished(reason) ==
    IF stub.on
    THEN Append(hist, [file |-> invoice_file, key |-> openai_key, outcome |-> Outcome(reason)])
    ELSE hist

\* An exception leaves the script: nothing catches it, the run is over.
Raise(reason) ==
    /\ pc' = "failed"
    /\ failure' = reason
    /\ hist' = Finished(reason)
    /\ UNCHANGED <<run, OPENAI_API_KEY, files, stub>>

Goto(next) ==
    /\ pc' = next
    /\ UNCHANGED <<failure, persistent>>

Issue(svc) == Append(calls, [svc |-> svc, status |-> "inflight"])

Returned(status) == [calls EXCEPT ![Len(calls)].status = status]

\* ------------------------------------------------------------------------
\* Initial state.
\* ------------------------------------------------------------------------

Fresh ==
    /\ temporary_file = 0
    /\ loader = 0
    /\ llm = None
    /\ embeddings = None
    /\ docs = <<>>
    /\ index = {}
    /\ text_invoice = None
    /\ format_template = None
    /\ chat = None
    /\ response = NoJson
    /\ json_invoice = NoJson
    /\ displayed = NoJson
    /\ calls = <<>>

InitCommon ==
    /\ run = 0
    /\ OPENAI_API_KEY \in BOOLEAN
    /\ files = [n \in {} |-> None]
    /\ hist = <<>>
    /\ pc = "idle"
    /\ failure = None
    /\ openai_key = ""
    /\ invoice_file = None
    /\ Fresh

Init == InitCommon /\ stub = FreeServices

InitStub == InitCommon /\ stub \in StubServices

\* ------------------------------------------------------------------------
\* The script, statement by statement.
\* ------------------------------------------------------------------------

\* Streamlit runs the script from the top with the widgets' current
\* values.  Without an upload the run ends at line 39.
Rerun(key, upload) ==
    /\ pc \in {"idle", "done", "failed"}
    /\ run < MaxRuns
    /\ run' = run + 1
    /\ openai_key' = key
    /\ invoice_file' = upload
    /\ temporary_file' = 0
    /\ loader' = 0
    /\ llm' = None
    /\ embeddings' = None
    /\ docs' = <<>>
    /\ index' = {}
    /\ text_invoice' = None
    /\ format_template' = None
    /\ chat' = None
    /\ response' = NoJson
    /\ json_invoice' = NoJson
    /\ displayed' = NoJson
    /\ calls' = <<>>
    /\ failure' = None
    /\ pc' = IF upload = None THEN "idle" ELSE "tmp"
    /\ UNCHANGED <<OPENAI_API_KEY, files, stub, hist>>

\* with tempfile.NamedTemporaryFile(delete=False) as temporary_file:
\*     temporary_file.write(invoice_file.read())
CreateTemporaryFile ==
    /\ pc = "tmp"
    /\ temporary_file' = TempName(files)
    /\ files' = WriteFile(files, TempName(files), invoice_file)
    /\ pc' = "loader"
    /\ UNCHANGED <<run, OPENAI_API_KEY, stub, hist, failure>>
    /\ UNCHANGED <<openai_key, invoice_file, loader, llm, embeddings, docs, index,
                   text_invoice, format_template, chat, response, json_invoice,
                   displayed, calls>>

\* A loader that opens the oldest file of the temporary directory.
LoaderPathStale(tmp, fs) == CHOOSE n \in DOMAIN fs : \A m \in DOMAIN fs : n <= m

\* The path handed to the loader: temporary_file.name.
LoaderPath(tmp, fs) == tmp

\* loader = PyPDFLoader(temporary_file.name): the constructor checks that
\* the path is a file (it is) and reads nothing.
MakeLoader ==
    /\ pc = "loader"
    /\ loader' = LoaderPath(temporary_file, files)
    /\ Goto("llm")
    /\ UNCHANGED <<openai_key, invoice_file, temporary_file, llm, embeddings, docs,
                   index, text_invoice, format_template, chat, response, json_invoice,
                   displayed, calls>>

\* llm = OpenAI(openai_api_key=openai_key, temperature=0): the constructor
\* raises when neither the argument nor the environment gives a key; it
\* makes no call to the service.
MakeLLM ==
    /\ pc = "llm"
    /\ IF ClientKey(openai_key) = None
       THEN /\ Raise("ValidationError")
            /\ UNCHANGED script
       ELSE /\ llm' = ClientKey(openai_key)
            /\ Goto("embeddings")
            /\ UNCHANGED <<openai_key, invoice_file, temporary_file, loader, embeddings,
                           docs, index, text_invoice, format_template, chat, response,
                           json_invoice, displayed, calls>>

\* embeddings = OpenAIEmbeddings(openai_api_key=openai_key)
MakeEmbeddings ==
    /\ pc = "embeddings"
    /\ IF ClientKey(openai_key) = None
       THEN /\ Raise("ValidationError")
            /\ UNCHANGED script
       ELSE /\ embeddings' = ClientKey(openai_key)
            /\ Goto("load")
            /\ UNCHANGED <<openai_key, invoice_file, temporary_file, loader, llm, docs,
                           index, text_invoice, format_template, chat, response,
                           json_invoice, displayed, calls>>

\* VectorstoreIndexCreator(...).from_loaders([loader]), first half: the
\* loader reads and parses the file.
Load ==
    /\ pc = "load"
    /\ IF IsPdf(files[loader])
       THEN /\ docs' = <<PageText(files[loader])>>
            /\ Goto("embed_index")
            /\ UNCHANGED <<openai_key, invoice_file, temporary_file, loader, llm,
                           embeddings, index, text_invoice, format_template, chat,
                           response, json_invoice, displayed, calls>>
       ELSE /\ Raise("LoadError")
            /\ UNCHANGED script

\* from_loaders, second half: the chunks go to the embedding service.
EmbedIndexCall ==
    /\ pc = "embed_index"
    /\ calls' = Issue("embed_index")
    /\ Goto("embed_index_wait")
    /\ UNCHANGED <<openai_key, invoice_file, temporary_file, loader, llm, embeddings,
                   docs, index, text_invoice, format_template, chat, response,
                   json_invoice, displayed>>

\* The embedding call returns: the in-memory index is built, or the error
\* leaves the script.
EmbedIndexReturn ==
    /\ pc = "embed_index_wait"
    /\ \E r \in EmbedReplies(docs[1]) :
        IF r = "ok"
        THEN /\ calls' = Returned("ok")
             /\ index' = {docs[i] : i \in DOMAIN docs}
             /\ Goto("query_embed")
             /\ UNCHANGED <<openai_key, invoice_file, temporary_file, loader, llm,
                            embeddings, docs, text_invoice, format_template, chat,
                            response, json_invoice, displayed>>
        ELSE /\ calls' = Returned(Error)
             /\ Raise("EmbeddingError")
             /\ UNCHANGED <<openai_key, invoice_file, temporary_file, loader, llm,
                            embeddings, docs, index, text_invoice, format_template, chat,
                            response, json_invoice, displayed>>

\* text_invoice = index.query(query, llm=llm), first call: the question is
\* embedded.
QueryEmbedCall ==
    /\ pc = "query_embed"
    /\ calls' = Issue("embed_query")
    /\ Goto("query_embed_wait")
    /\ UNCHANGED <<openai_key, invoice_file, temporary_file, loader, llm, embeddings,
                   docs, index, text_invoice, format_template, chat, response,
                   json_invoice, displayed>>

QueryEmbedReturn ==
    /\ pc = "query_embed_wait"
    /\ \E r \in EmbedReplies(query) :
        /\ calls' = Returned(r)
        /\ IF r = "ok" THEN Goto("complete") ELSE Raise("EmbeddingError")
    /\ UNCHANGED <<openai_key, invoice_file, temporary_file, loader, llm, embeddings,
                   docs, index, text_invoice, format_template, chat, response,
                   json_invoice, displayed>>

\* index.query, second call: the retrieved chunks and the question go to
\* the text-generation service.
CompleteCall ==
    /\ pc = "complete"
    /\ calls' = Issue("complete")
    /\ Goto("complete_wait")
    /\ UNCHANGED <<openai_key, invoice_file, temporary_file, loader, llm, embeddings,
                   docs, index, text_invoice, format_template, chat, response,
                   json_invoice, displayed>>

\* A chat call that is issued again after an error.
ChatReturnRetry ==
    /\ pc = "chat_wait"
    /\ \E r \in ChatReplies(format_template) :
        IF r = ChatError
        THEN IF Len(calls) < Len(response_schemas)
             THEN /\ calls' = Append(Returned(Error), [svc |-> "chat", status |-> "inflight"])
                  /\ Goto("chat_wait")
                  /\ UNCHANGED response
             ELSE /\ calls' = Returned(Error)
                  /\ Raise("GenerationError")
                  /\ UNCHANGED response
        ELSE /\ calls' = Returned("ok")
             /\ response' = r
             /\ Goto("parse")
    /\ UNCHANGED <<openai_key, invoice_file, temporary_file, loader, llm, embeddings,
                   docs, index, text_invoice, format_template, chat, json_invoice,
                   displayed>>

\* The chunks the index returns for the question: the document has one.
Retrieved(idx) == CHOOSE c \in idx : TRUE

CompleteReturn ==
    /\ pc = "complete_wait"
    /\ \E r \in CompleteReplies(Retrieved(index)) :
        IF r = Error
        THEN /\ calls' = Returned(Error)
             /\ Raise("GenerationError")
             /\ UNCHANGED text_invoice
        ELSE /\ calls' = Returned("ok")
             /\ text_invoice' = r
             /\ Goto("prompt")
    /\ UNCHANGED <<openai_key, invoice_file, temporary_file, loader, llm, embeddings,
                   docs, index, format_template, chat, response, json_invoice,
                   displayed>>

\* Lines 72-112: the six schemas, the parser, the prompt and the chat
\* client are built; the prompt carries text_invoice.
BuildPrompt ==
    /\ pc = "prompt"
    /\ IF ClientKey(openai_key) = None
       THEN /\ Raise("ValidationError")
            /\ UNCHANGED script
       ELSE /\ chat' = ClientKey(openai_key)
            /\ format_template' = [text |-> text_invoice,
                                   format_instructions |-> response_schemas]
            /\ Goto("chat")
            /\ UNCHANGED <<openai_key, invoice_file, temporary_file, loader, llm,
                           embeddings, docs, index, text_invoice, response,
                           json_invoice, displayed, calls>>

\* response = chat(format_template)
ChatCall ==
    /\ pc = "chat"
    /\ calls' = Issue("chat")
    /\ Goto("chat_wait")
    /\ UNCHANGED <<openai_key, invoice_file, temporary_file, loader, llm, embeddings,
                   docs, index, text_invoice, format_template, chat, response,
                   json_invoice, displayed>>

ChatReturn ==
    /\ pc = "chat_wait"
    /\ \E r \in ChatReplies(format_template) :
        IF r = ChatError
        THEN /\ calls' = Returned(Error)
             /\ Raise("GenerationError")
             /\ UNCHANGED response
        ELSE /\ calls' = Returned("ok")
             /\ response' = r
             /\ Goto("parse")
    /\ UNCHANGED <<openai_key, invoice_file, temporary_file, loader, llm, embeddings,
                   docs, index, text_invoice, format_template, chat, json_invoice,
                   displayed>>

\* `name in json_obj`: a key of an object, an element of an array.
Has(content, name) == name \in DOMAIN content.body

\* StructuredOutputParser.parse: the text must hold JSON, and every schema
\* name must be `in` the decoded value; the decoded value is returned as is.
ParseOK(content) ==
    /\ content.kind \in {"object", "array"}
    /\ \A i \in DOMAIN response_schemas : Has(content, response_schemas[i])

\* A parser that fills the fields an object lacks with null.
ParseLenient ==
    /\ pc = "parse"
    /\ IF response.kind = "object"
       THEN /\ json_invoice' =
                  [kind |-> "object",
                   body |-> [k \in DOMAIN response.body \cup Keys |->
                               IF k \in DOMAIN response.body THEN response.body[k] ELSE NULL]]
            /\ Goto("display")
            /\ UNCHANGED <<openai_key, invoice_file, temporary_file, loader, llm,
                           embeddings, docs, index, text_invoice, format_template, chat,
                           response, displayed, calls>>
       ELSE /\ Raise("OutputParserException")
            /\ UNCHANGED script

\* A parse failure that asks the text-generation service again.
ParseRetry ==
    /\ pc = "parse"
    /\ IF ParseOK(response)
       THEN /\ json_invoice' = response
            /\ Goto("display")
            /\ UNCHANGED <<openai_key, invoice_file, temporary_file, loader, llm,
                           embeddings, docs, index, text_invoice, format_template, chat,
                           response, displayed, calls>>
       ELSE IF Len(calls) < Len(response_schemas)
            THEN /\ response' = NoJson
                 /\ Goto("complete")
                 /\ UNCHANGED <<openai_key, invoice_file, temporary_file, loader, llm,
                                embeddings, docs, index, text_invoice, format_template,
                                chat, json_invoice, displayed, calls>>
            ELSE /\ Raise("OutputParserException")
                 /\ UNCHANGED script

\* A parse failure that is swallowed: the parse is tried again on the same
\* text, for ever.
ParseSpin ==
    /\ pc = "parse"
    /\ IF ParseOK(response)
       THEN /\ json_invoice' = response
            /\ Goto("display")
            /\ UNCHANGED <<openai_key, invoice_file, temporary_file, loader, llm,
                           embeddings, docs, index, text_invoice, format_template, chat,
                           response, displayed, calls>>
       ELSE UNCHANGED vars

\* json_invoice = output_parser.parse(response.content)
Parse ==
    /\ pc = "parse"
    /\ IF ParseOK(response)
       THEN /\ json_invoice' = response
            /\ Goto("display")
            /\ UNCHANGED <<openai_key, invoice_file, temporary_file, loader, llm,
                           embeddings, docs, index, text_invoice, format_template, chat,
                           response, displayed, calls>>
       ELSE /\ Raise("OutputParserException")
            /\ UNCHANGED script

\* st.write('Here is your JSON invoice:'); st.json(json_invoice)
Display ==
    /\ pc = "display"
    /\ displayed' = json_invoice
    /\ Goto("remove")
    /\ UNCHANGED <<openai_key, invoice_file, temporary_file, loader, llm, embeddings,
                   docs, index, text_invoice, format_template, chat, response,
                   json_invoice, calls>>

\* os.remove(temporary_file.name): the last statement of the script.
Remove ==
    /\ pc = "remove"
    /\ files' = RemoveFile(files, temporary_file)
    /\ pc' = "done"
    /\ hist' = Finished(None)
    /\ UNCHANGED <<run, OPENAI_API_KEY, stub, failure, script>>

\* The statements of a run, in script order.
Pipeline ==
    \/ CreateTemporaryFile
    \/ MakeLoader
    \/ MakeLLM
    \/ MakeEmbeddings
    \/ Load
    \/ EmbedIndexCall
    \/ EmbedIndexReturn
    \/ QueryEmbedCall
    \/ QueryEmbedReturn
    \/ CompleteCall
    \/ CompleteReturn
    \/ BuildPrompt
    \/ ChatCall
    \/ ChatReturn
    \/ Parse
    \/ Display
    \/ Remove

Next ==
    \/ \E key \in Credentials, upload \in Uploads \cup {None} : Rerun(key, upload)
    \/ Pipeline

Spec == Init /\ [][Next]_vars

\* The same script against deterministic stub services.
StubSpec == InitStub /\ [][Next]_vars

\* The script is sequential code: a statement that can run does run, and
\* a blocking call returns (a value or an error).  Reruns are the user's.
LiveSpec == Init /\ [][Next]_vars /\ WF_vars(Pipeline)

\* ------------------------------------------------------------------------
\* Properties.
\* ------------------------------------------------------------------------

Ended == pc \in {"done", "failed"}

Started == pc \notin {"idle", "done", "failed"}

\* The state of the pipeline, read off the script position.
PipelineState(p) ==
    CASE p \in {"idle", "tmp", "loader", "llm", "embeddings", "load"} -> "Idle"
      [] p \in {"embed_index", "embed_index_wait"} -> "Loaded"
      [] p \in {"query_embed", "query_embed_wait", "complete", "complete_wait"} -> "Indexed"
      [] p \in {"prompt", "chat", "chat_wait", "parse"} -> "Retrieved"
      [] p = "display" -> "Extracted"
      [] p \in {"remove", "done"} -> "Done"
      [] p = "failed" -> "Failed"

StateOrder == <<"Idle", "Loaded", "Indexed", "Retrieved", "Extracted", "Done">>

Follows(a, b) ==
    \E i \in 1..(Len(StateOrder) - 1) : StateOrder[i] = a /\ StateOrder[i + 1] = b

\* C1: once an invocation that created its temporary file has ended, by
\* success or by failure, that file no longer exists.
CleanupOnEveryExit ==
    (Ended /\ temporary_file # 0) => temporary_file \notin DOMAIN files

\* C2: within one invocation the pipeline state stays, moves to the next
\* state of Idle, Loaded, Indexed, Retrieved, Extracted, Done, or moves from
\* a state before Done to Failed; nothing leaves Failed.
LinearPipeline ==
    [][run' = run =>
        \/ PipelineState(pc') = PipelineState(pc)
        \/ Follows(PipelineState(pc), PipelineState(pc'))
        \/ /\ PipelineState(pc) \notin {"Done", "Failed"}
           /\ PipelineState(pc') = "Failed"]_vars

\* An invocation failed after the free-text answer had been retrieved.
FailedAfterRetrieval == pc = "failed" /\ text_invoice # None

\* C3: whatever is displayed is a mapping whose key set is exactly the six
\* field names.
SchemaCompleteness ==
    displayed # NoJson => (displayed.kind = "object" /\ DOMAIN displayed.body = Keys)

\* C4: a run displays the six-field result or fails and displays nothing;
\* nothing is displayed in a failed run.
NoPartialResult ==
    /\ displayed # NoJson =>
          /\ failure = None
          /\ displayed.kind = "object"
          /\ Keys \subseteq DOMAIN displayed.body
    /\ pc = "failed" => displayed = NoJson

ParseActed == response # NoJson /\ pc # "parse"

Lacking(content) == {k \in Keys : ~Has(content, k)}

\* C5 as stated: a field the model's object leaves out is in the result,
\* mapped to null.
NullFallback ==
    (ParseActed /\ response.kind = "object") =>
        \A k \in Lacking(response) :
            /\ json_invoice.kind = "object"
            /\ k \in DOMAIN json_invoice.body
            /\ json_invoice.body[k] = NULL

\* C5 as amended: when the model output lacks one of the six names the
\* parser raises and nothing is displayed; otherwise the result is the
\* decoded output unchanged, so a field is null only where the model wrote
\* null and an empty string stays an empty string.
StrictVerbatimParse ==
    ParseActed =>
        IF Lacking(response) # {} \/ response.kind \notin {"object", "array"}
        THEN /\ pc = "failed"
             /\ failure = "OutputParserException"
             /\ json_invoice = NoJson
             /\ displayed = NoJson
        ELSE /\ json_invoice = response
             /\ displayed \in {NoJson, response}

\* The parser rejected an object that lacks a field.
RejectedLackingField ==
    /\ pc = "failed"
    /\ failure = "OutputParserException"
    /\ response.kind = "object"
    /\ Lacking(response) # {}

\* C6: no pipeline step has started while the API key is empty.
CredentialGate == loader # 0 => openai_key # ""

\* C7: with an upload that is not a PDF, no call to an external service is
\* ever made and the invocation fails with a load error.
LoadFailureFirst ==
    (invoice_file # None /\ ~IsPdf(invoice_file)) =>
        /\ calls = <<>>
        /\ pc = "failed" => failure = "LoadError"

CallOrder == <<"embed_index", "embed_query", "complete", "chat">>

Deterministic ==
    \A i, j \in DOMAIN hist :
        (hist[i].file = hist[j].file /\ hist[i].key = hist[j].key)
            => hist[i].outcome = hist[j].outcome

\* The same inputs succeeded twice, with a failed invocation of another
\* upload between them.
RepeatedAroundFailure ==
    \E i, m, j \in DOMAIN hist :
        /\ i < m /\ m < j
        /\ hist[i].file = hist[j].file /\ hist[i].key = hist[j].key
        /\ hist[i].outcome.failure = None
        /\ hist[m].outcome.failure # None
        /\ hist[m].file # hist[i].file

====
